---- MODULE Spec2Model ----
(***************************************************************************)
(* UK number plate generator (uk_number_plate_generator.py).               *)
(*                                                                         *)
(* Strings are sequences of one-character strings, so that formatting,     *)
(* slicing, upper-casing, date parsing and the csv encoding are computed   *)
(* character by character as the Python code computes them.                *)
(***************************************************************************)
EXTENDS Integers, Sequences, FiniteSets, TLC

VARIABLES
    file,                       \* the file at save_file_path: NoFile or its characters
    instance,                   \* "none" or "live": is there a constructed generator
    has_plates,                 \* does the instance have the attribute existing_generated_plates
    existing_generated_plates,  \* the Tracked Set (a set of strings)
    result,                     \* outcome of the last operation, with its file system calls
    minted,                     \* identifiers returned by generate_numberplate so far, all sessions
    persisted,                  \* the minted identifiers that a successful save has written
    loads_ok,                   \* no construction so far failed to load an existing file
    loaded,                     \* the Tracked Set the live instance loaded at construction
    saved,                      \* the Tracked Set the last save wrote, if the store is still as written
    nCalls,                     \* number of generate_numberplate calls so far
    exhausted                   \* prefixes the live instance raised the exhaustion error for

vars == <<file, instance, has_plates, existing_generated_plates, result,
          minted, persisted, loads_ok, loaded, saved, nCalls, exhausted>>

-----------------------------------------------------------------------------
(* Bounds of the model *)

\* number of letters of the 23-letter plate alphabet that are kept
NChars == 2
\* generate_numberplate calls per behaviour
MaxCalls == 2
\* sets up to this size are written in every order, larger ones in two orders
MaxPermuted == 2

-----------------------------------------------------------------------------
(* Characters and strings *)

ascii_uppercase ==
    <<"A","B","C","D","E","F","G","H","I","J","K","L","M",
      "N","O","P","Q","R","S","T","U","V","W","X","Y","Z">>

ascii_lowercase ==
    <<"a","b","c","d","e","f","g","h","i","j","k","l","m",
      "n","o","p","q","r","s","t","u","v","w","x","y","z">>

digits == <<"0","1","2","3","4","5","6","7","8","9">>

Range(s) == {s[i] : i \in 1..Len(s)}

IsDigit(c) == c \in Range(digits)

DigitVal(c) == (CHOOSE i \in 1..10 : digits[i] = c) - 1

\* str.upper() on the ASCII letters
UpperChar(c) ==
    IF c \in Range(ascii_lowercase)
    THEN ascii_uppercase[CHOOSE i \in 1..26 : ascii_lowercase[i] = c]
    ELSE c

NotUpper(s) == s
upper(s) == [i \in 1..Len(s) |-> UpperChar(s[i])]

\* str(n) for n >= 0
RECURSIVE str(_)
str(n) == IF n < 10 THEN <<digits[n + 1]>>
          ELSE Append(str(n \div 10), digits[(n % 10) + 1])

\* the slice s[-2:]
LastTwo(s) == IF Len(s) <= 2 THEN s ELSE SubSeq(s, Len(s) - 1, Len(s))

\* the slice s[-4:]
FirstFour(s) == IF Len(s) <= 4 THEN s ELSE SubSeq(s, 1, 4)
LastFour(s) == IF Len(s) <= 4 THEN s ELSE SubSeq(s, Len(s) - 3, Len(s))

-----------------------------------------------------------------------------
(* Class attributes *)

ExcludedChars == {"I", "Q", "Z"}

\* itertools.product(..., repeat = 3)
RepeatLen == 3

allowed_plate_chars ==
    SubSeq(SelectSeq(ascii_uppercase, LAMBDA c : c \notin ExcludedChars), 1, NChars)

\* itertools.product: the rightmost position advances fastest
RECURSIVE product(_, _)
product(chars, r) ==
    IF r = 0 THEN << <<>> >>
    ELSE LET prev == product(chars, r - 1)
             n    == Len(chars)
         IN  [i \in 1..(Len(prev) * n) |->
                 Append(prev[((i - 1) \div n) + 1], chars[((i - 1) % n) + 1])]

all_possible_random_strings == product(allowed_plate_chars, RepeatLen)

SpaceSize == Len(all_possible_random_strings)

-----------------------------------------------------------------------------
(* generate_age_identifier *)

AgeMonthsBroken(month) == 3 <= month /\ month < 8
UsesOwnYear(month) == 3 <= month /\ month <= 8

generate_age_identifier(date_created) ==
    LET year  == date_created.year
        month == date_created.month
    IN  IF UsesOwnYear(month) THEN LastTwo(str(year))
        ELSE LastTwo(str(year + 50))

-----------------------------------------------------------------------------
(* datetime.strptime(date_created_str, "%d/%m/%Y") *)

MsgTimeData    == "time data does not match format '%d/%m/%Y'"
MsgUnconverted == "unconverted data remains"
MsgYearRange   == "year 0 is out of range"
MsgDayRange    == "day is out of range for month"

\* the directive %d: 3[0-1] | [1-2]\d | 0[1-9] | [1-9] | " "[1-9]
DayToken(t) ==
    \/ Len(t) = 2 /\ t[1] = "3" /\ t[2] \in {"0", "1"}
    \/ Len(t) = 2 /\ t[1] \in {"1", "2"} /\ IsDigit(t[2])
    \/ Len(t) = 2 /\ t[1] = "0" /\ IsDigit(t[2]) /\ t[2] # "0"
    \/ Len(t) = 1 /\ IsDigit(t[1]) /\ t[1] # "0"
    \/ Len(t) = 2 /\ t[1] = " " /\ IsDigit(t[2]) /\ t[2] # "0"

\* the directive %m: 1[0-2] | 0[1-9] | [1-9]
MonthToken(t) ==
    \/ Len(t) = 2 /\ t[1] = "1" /\ t[2] \in {"0", "1", "2"}
    \/ Len(t) = 2 /\ t[1] = "0" /\ IsDigit(t[2]) /\ t[2] # "0"
    \/ Len(t) = 1 /\ IsDigit(t[1]) /\ t[1] # "0"

\* the directive %Y: \d\d\d\d
YearToken(t) == Len(t) = 4 /\ \A i \in 1..4 : IsDigit(t[i])

RECURSIVE TokenVal(_)
TokenVal(t) ==
    IF t = <<>> THEN 0
    ELSE LET c == t[Len(t)]
             r == TokenVal(SubSeq(t, 1, Len(t) - 1))
         IN  IF IsDigit(c) THEN 10 * r + DigitVal(c) ELSE r

\* the characters of s from position a of length n (shorter at the end of s)
Piece(s, a, n) == SubSeq(s, a, IF a + n - 1 <= Len(s) THEN a + n - 1 ELSE Len(s))

\* the ways the pattern matches a prefix of s: <<day length, month length>>
Matches(s) ==
    {m \in {1, 2} \X {1, 2} :
        /\ DayToken(Piece(s, 1, m[1]))
        /\ Piece(s, m[1] + 1, 1) = <<"/">>
        /\ MonthToken(Piece(s, m[1] + 2, m[2]))
        /\ Piece(s, m[1] + m[2] + 2, 1) = <<"/">>
        /\ YearToken(Piece(s, m[1] + m[2] + 3, 4))}

IsLeap(year) == year % 4 = 0 /\ (year % 100 # 0 \/ year % 400 = 0)

DaysInMonth(year, month) ==
    IF month = 2 THEN (IF IsLeap(year) THEN 29 ELSE 28)
    ELSE IF month \in {4, 6, 9, 11} THEN 30 ELSE 31

NoDate == [year |-> 0, month |-> 0, day |-> 0]

strptime(s) ==
    IF Matches(s) = {} THEN [ok |-> FALSE, msg |-> MsgTimeData, date |-> NoDate]
    ELSE LET m     == CHOOSE x \in Matches(s) : TRUE
             stop  == m[1] + m[2] + 6
             day   == TokenVal(Piece(s, 1, m[1]))
             month == TokenVal(Piece(s, m[1] + 2, m[2]))
             year  == TokenVal(Piece(s, m[1] + m[2] + 3, 4))
         IN  IF Len(s) # stop
                 THEN [ok |-> FALSE, msg |-> MsgUnconverted, date |-> NoDate]
             ELSE IF year = 0
                 THEN [ok |-> FALSE, msg |-> MsgYearRange, date |-> NoDate]
             ELSE IF day > DaysInMonth(year, month)
                 THEN [ok |-> FALSE, msg |-> MsgDayRange, date |-> NoDate]
             ELSE [ok |-> TRUE, msg |-> "",
                   date |-> [year |-> year, month |-> month, day |-> day]]

StrptimeErrors == {MsgTimeData, MsgUnconverted, MsgYearRange, MsgDayRange}

-----------------------------------------------------------------------------
(* generate_available_random_string *)

MsgExhausted == "No more unique strings available"
MsgNoAttr    == "object has no attribute 'existing_generated_plates'"

\* f"{number_plate_prefix} {random_string}"
Plate(number_plate_prefix, random_string) ==
    number_plate_prefix \o <<" ">> \o random_string

\* index = (start_index + i) % len(all_possible_random_strings), 0-based
ScanIndexNoWrap(start_index, i) ==
    IF start_index + i < SpaceSize THEN start_index + i ELSE SpaceSize - 1
ScanIndexFromZero(start_index, i) == i % SpaceSize
ScanIndexEveryOther(start_index, i) == (start_index + 2 * i) % SpaceSize
ScanIndex(start_index, i) == (start_index + i) % SpaceSize

\* the for loop from iteration i on; tested lists the indices tried so far
RECURSIVE Scan(_, _, _, _, _)
ScanNoCheck(plates, number_plate_prefix, start_index, i, tested) ==
    [exc |-> "", msg |-> "",
     value |-> all_possible_random_strings[ScanIndex(start_index, i) + 1],
     tested |-> Append(tested, ScanIndex(start_index, i))]
Scan(plates, number_plate_prefix, start_index, i, tested) ==
    IF i >= SpaceSize
    THEN [exc |-> "ValueError", msg |-> MsgExhausted, value |-> <<>>, tested |-> tested]
    ELSE LET index         == ScanIndex(start_index, i)
             random_string == all_possible_random_strings[index + 1]
         IN  IF Plate(number_plate_prefix, random_string) \notin plates
             THEN [exc |-> "", msg |-> "", value |-> random_string,
                   tested |-> Append(tested, index)]
             ELSE Scan(plates, number_plate_prefix, start_index, i + 1,
                       Append(tested, index))

\* self is [has_plates, plates]; start_index is the value random.randint returned
generate_available_random_string(self, number_plate_prefix, start_index) ==
    IF ~self.has_plates
    THEN [exc |-> "AttributeError", msg |-> MsgNoAttr, value |-> <<>>, tested |-> <<>>]
    ELSE Scan(self.plates, number_plate_prefix, start_index, 0, <<>>)

-----------------------------------------------------------------------------
(* generate_numberplate *)

MsgExcluded == "I, Q, Z not allowed in UK number plates"
MsgLength   == "DVLA memory tag must be 2 characters in length"

HasExcluded(dvla_memory_tag) == \E c \in ExcludedChars : c \in Range(dvla_memory_tag)

\* the outcome of a call: what is raised or returned, and the Tracked Set afterwards
\* (drew: random.randint was reached)
Outcome(exc, msg, value, plates, tested, drew) ==
    [exc |-> exc, msg |-> msg, value |-> value, plates |-> plates, tested |-> tested,
     drew |-> drew]

\* the checks before the prefix is built: the message raised, "" when all pass
ValidationErrorTagFirst(parsed, dvla_memory_tag) ==
    IF HasExcluded(dvla_memory_tag) THEN MsgExcluded
    ELSE IF Len(dvla_memory_tag) # 2 THEN MsgLength
    ELSE IF ~parsed.ok THEN parsed.msg
    ELSE ""
ValidationErrorLengthFirst(parsed, dvla_memory_tag) ==
    IF ~parsed.ok THEN parsed.msg
    ELSE IF Len(dvla_memory_tag) # 2 THEN MsgLength
    ELSE IF HasExcluded(dvla_memory_tag) THEN MsgExcluded
    ELSE ""
ValidationError(parsed, dvla_memory_tag) ==
    IF ~parsed.ok THEN parsed.msg
    ELSE IF HasExcluded(dvla_memory_tag) THEN MsgExcluded
    ELSE IF Len(dvla_memory_tag) # 2 THEN MsgLength
    ELSE ""

\* the Tracked Set after the suffix search: the plate is added when one was found
PlatesAfterAlwaysAdd(plates, found, generated_number_plate) ==
    plates \cup {generated_number_plate}
PlatesAfterOnlyNew(plates, found, generated_number_plate) ==
    IF found.exc # "" THEN plates ELSE {generated_number_plate}
PlatesAfter(plates, found, generated_number_plate) ==
    IF found.exc # "" THEN plates ELSE plates \cup {generated_number_plate}

\* f"{dvla_memory_tag}{age_identifier}" of a call whose checks pass
NumberPlatePrefix(dvla_memory_tag_in, date_created_str) ==
    upper(dvla_memory_tag_in) \o generate_age_identifier(strptime(date_created_str).date)

generate_numberplate(self, dvla_memory_tag_in, date_created_str, start_index) ==
    LET parsed          == strptime(date_created_str)
        dvla_memory_tag == upper(dvla_memory_tag_in)
        invalid         == ValidationError(parsed, dvla_memory_tag)
    IN  IF invalid # ""
        THEN Outcome("ValueError", invalid, <<>>, self.plates, <<>>, FALSE)
        ELSE LET age_identifier      == generate_age_identifier(parsed.date)
                 number_plate_prefix == dvla_memory_tag \o age_identifier
                 found == generate_available_random_string(self, number_plate_prefix,
                                                           start_index)
                 generated_number_plate == Plate(number_plate_prefix, found.value)
             IN  Outcome(found.exc, found.msg,
                         IF found.exc # "" THEN <<>> ELSE generated_number_plate,
                         PlatesAfter(self.plates, found, generated_number_plate),
                         found.tested, TRUE)

-----------------------------------------------------------------------------
(* csv.writer(file).writerow([string]), excel dialect *)

CR    == "\r"
LF    == "\n"
QUOTE == "\""
COMMA == ","

\* the field is written in quotes: a delimiter, a quote or a line terminator
\* character in it, or the empty field of a one-field row
NeedsQuotes(field) ==
    field = <<>> \/ \E c \in Range(field) : c \in {COMMA, QUOTE, CR, LF}

\* doublequote: every quote character of the field is written twice
RECURSIVE Doubled(_)
NotDoubled(field) == field
Doubled(field) ==
    IF field = <<>> THEN <<>>
    ELSE (IF Head(field) = QUOTE THEN <<QUOTE, QUOTE>> ELSE <<Head(field)>>)
         \o Doubled(Tail(field))

writerowRaw(field) == field \o <<CR, LF>>
writerow(field) ==
    (IF NeedsQuotes(field) THEN <<QUOTE>> \o Doubled(field) \o <<QUOTE>>
     ELSE Doubled(field))
    \o <<CR, LF>>

\* the rows written for the strings in iteration order
RECURSIVE WriteAll(_)
WriteAll(order) ==
    IF order = <<>> THEN <<>> ELSE writerow(Head(order)) \o WriteAll(Tail(order))

\* the file is opened with encoding='utf-8': a string with a lone surrogate
\* (written here as one character) cannot be encoded, and write raises
\* UnicodeEncodeError
SURROGATE == "<U+D800>"

Encodable(string) == SURROGATE \notin Range(string)

\* the rows that reached the file when a row of the iteration could not be
\* encoded: those before it
RECURSIVE WrittenBeforeError(_)
WrittenBeforeError(order) ==
    IF order = <<>> \/ ~Encodable(Head(order)) THEN <<>>
    ELSE writerow(Head(order)) \o WrittenBeforeError(Tail(order))

\* the orders in which a set may be iterated
RECURSIVE SetToSeq(_)
SetToSeq(S) ==
    IF S = {} THEN <<>>
    ELSE LET x == CHOOSE y \in S : TRUE IN <<x>> \o SetToSeq(S \ {x})

Reverse(q) == [i \in 1..Len(q) |-> q[Len(q) + 1 - i]]

IterationOrders(S) ==
    LET n == Cardinality(S)
    IN  IF n <= MaxPermuted
        THEN {q \in [1..n -> S] : \A i, j \in 1..n : i # j => q[i] # q[j]}
        ELSE LET q == SetToSeq(S) IN {q, Reverse(q)}

-----------------------------------------------------------------------------
(* csv.reader(file), excel dialect, file opened with newline='' *)

EOL == "<EOL>"

\* file iteration: a line ends after LF, after CR LF, after a CR with no LF, and
\* at the end of the text
EndsLine(text, i) ==
    \/ i = Len(text)
    \/ text[i] = LF
    \/ text[i] = CR /\ text[i + 1] # LF

\* parse_reset
FreshRecord == [state |-> "START_RECORD", field |-> <<>>, fields |-> <<>>, err |-> FALSE]

\* parse_save_field
SaveField(st, next) ==
    [st EXCEPT !.fields = Append(st.fields, st.field), !.field = <<>>, !.state = next]

\* parse_add_char
AddChar(st, c, next) == [st EXCEPT !.field = Append(st.field, c), !.state = next]

AfterLineEnd(c) == IF c = EOL THEN "START_RECORD" ELSE "EAT_CRNL"

StartField(st, c) ==
    IF c \in {LF, CR, EOL} THEN SaveField(st, AfterLineEnd(c))
    ELSE IF c = QUOTE THEN [st EXCEPT !.state = "IN_QUOTED_FIELD"]
    ELSE IF c = COMMA THEN SaveField(st, "START_FIELD")
    ELSE AddChar(st, c, "IN_FIELD")

\* parse_process_char
parse_process_char(st, c) ==
    CASE st.state = "START_RECORD" ->
            IF c = EOL THEN st
            ELSE IF c \in {LF, CR} THEN [st EXCEPT !.state = "EAT_CRNL"]
            ELSE StartField(st, c)
      [] st.state = "START_FIELD" -> StartField(st, c)
      [] st.state = "IN_FIELD" ->
            IF c \in {LF, CR, EOL} THEN SaveField(st, AfterLineEnd(c))
            ELSE IF c = COMMA THEN SaveField(st, "START_FIELD")
            ELSE AddChar(st, c, "IN_FIELD")
      [] st.state = "IN_QUOTED_FIELD" ->
            IF c = EOL THEN st
            ELSE IF c = QUOTE THEN [st EXCEPT !.state = "QUOTE_IN_QUOTED_FIELD"]
            ELSE AddChar(st, c, "IN_QUOTED_FIELD")
      [] st.state = "QUOTE_IN_QUOTED_FIELD" ->
            IF c = QUOTE THEN AddChar(st, c, "IN_QUOTED_FIELD")
            ELSE IF c = COMMA THEN SaveField(st, "START_FIELD")
            ELSE IF c \in {LF, CR, EOL} THEN SaveField(st, AfterLineEnd(c))
            ELSE AddChar(st, c, "IN_FIELD")
      [] st.state = "EAT_CRNL" ->
            IF c \in {LF, CR} THEN st
            ELSE IF c = EOL THEN [st EXCEPT !.state = "START_RECORD"]
            ELSE [st EXCEPT !.err = TRUE]

\* the position where the line starting at position i ends
RECURSIVE LineEnd(_, _)
LineEnd(text, i) == IF EndsLine(text, i) THEN i ELSE LineEnd(text, i + 1)

\* the characters i..last of one line, then EOL, through parse_process_char
RECURSIVE ProcessLine(_, _, _, _)
ProcessLine(st, text, i, last) ==
    IF i > last THEN parse_process_char(st, EOL)
    ELSE ProcessLine(parse_process_char(st, text[i]), text, i + 1, last)

\* Reader.__next__ repeated to the end of the input, from the line starting at
\* position i on: a record is returned when a line leaves the parser in
\* START_RECORD, and what is left at the end of the input is a last record
RECURSIVE ReadRows(_, _, _, _)
ReadRows(text, i, st, rows) ==
    IF i > Len(text)
    THEN IF st.field # <<>> \/ st.state = "IN_QUOTED_FIELD"
         THEN Append(rows, Append(st.fields, st.field))
         ELSE rows
    ELSE LET last  == LineEnd(text, i)
             after == ProcessLine(st, text, i, last)
         IN  IF after.state = "START_RECORD"
             THEN ReadRows(text, last + 1, FreshRecord, Append(rows, after.fields))
             ELSE ReadRows(text, last + 1, after, rows)

reader(text) == ReadRows(text, 1, FreshRecord, <<>>)

\* load_from_csv: the first field of every non-empty row
load_from_csv(text) ==
    LET rows == reader(text)
    IN  {rows[i][1] : i \in {j \in 1..Len(rows) : rows[j] # <<>>}}

-----------------------------------------------------------------------------
(* The state machine: one store, one generator instance at a time *)

NoResult ==
    [op |-> "", path |-> <<>>, tag |-> <<>>, date_str |-> <<>>, date |-> NoDate,
     prefix |-> <<>>, start_index |-> -1, exc |-> "", msg |-> "", value |-> <<>>,
     tested |-> <<>>, fs |-> <<>>, again |-> FALSE]

NotSaved == [valid |-> FALSE, plates |-> {}]

self == [has_plates |-> has_plates, plates |-> existing_generated_plates]

MsgExtension == "File must be a .csv file"
MsgIOError   == "storage I/O error"
MsgEncode    == "'utf-8' codec can't encode character: surrogates not allowed"

CsvExtension == <<".", "c", "s", "v">>

\* the file after __init__: it is tested with os.path.isfile and read, never
\* created or written
FileAfterInitCreated(f) == IF f.exists THEN f ELSE [exists |-> TRUE, text |-> <<>>]
FileAfterInit(f) == f

\* the Tracked Set after save_to_csv: the loop only reads it
PlatesAfterSaveCleared(plates) == {}
PlatesAfterSave(plates) == plates

\* what load_from_csv would return for the store as it is
Stored(f) == IF f.exists THEN load_from_csv(f.text) ELSE {}

\* __init__ with a path that is not a .csv path: ValueError, no instance is made
ConstructBadPath(save_file_path) ==
    /\ LastFour(save_file_path) # CsvExtension
    /\ result' = [NoResult EXCEPT !.op = "__init__", !.path = save_file_path,
                                  !.exc = "ValueError", !.msg = MsgExtension]
    /\ UNCHANGED <<file, instance, has_plates, existing_generated_plates,
                   minted, persisted, loads_ok, loaded, saved, nCalls, exhausted>>

\* __init__: the file is absent (empty set) or is loaded
ConstructLoad(save_file_path) ==
    /\ LastFour(save_file_path) = CsvExtension
    /\ instance' = "live"
    /\ has_plates' = TRUE
    /\ LET stored == Stored(file)
       IN  existing_generated_plates' = stored /\ loaded' = stored
    /\ result' = [NoResult EXCEPT !.op = "__init__", !.path = save_file_path,
                                  !.fs = IF file.exists THEN <<"isfile", "open_r">>
                                         ELSE <<"isfile">>]
    /\ file' = FileAfterInit(file)
    /\ exhausted' = {}
    /\ UNCHANGED <<minted, persisted, loads_ok, saved, nCalls>>

\* __init__: the file exists and load_from_csv raises IOError, which is caught and
\* printed; self.existing_generated_plates is never assigned
ConstructLoadFails(save_file_path) ==
    /\ LastFour(save_file_path) = CsvExtension
    /\ file.exists
    /\ instance' = "live"
    /\ has_plates' = FALSE
    /\ existing_generated_plates' = {}
    /\ result' = [NoResult EXCEPT !.op = "__init__", !.path = save_file_path,
                                  !.msg = MsgIOError, !.fs = <<"isfile", "open_r">>]
    /\ loaded' = {}
    /\ loads_ok' = FALSE
    /\ file' = FileAfterInit(file)
    /\ exhausted' = {}
    /\ UNCHANGED <<minted, persisted, saved, nCalls>>

\* generate_numberplate(dvla_memory_tag, date_created_str), random.randint
\* returning start_index
GenerateNumberPlate(dvla_memory_tag, date_created_str, start_index, limit) ==
    /\ instance = "live"
    /\ nCalls < limit
    /\ LET out == generate_numberplate(self, dvla_memory_tag, date_created_str,
                                       start_index)
       IN  /\ existing_generated_plates' = out.plates
           /\ result' = [NoResult EXCEPT !.op = "generate_numberplate",
                             !.tag = dvla_memory_tag, !.date_str = date_created_str,
                             !.start_index = IF out.drew THEN start_index ELSE -1,
                             !.exc = out.exc,
                             !.msg = out.msg, !.value = out.value,
                             !.tested = out.tested,
                             !.again = /\ out.msg = MsgExhausted
                                       /\ NumberPlatePrefix(dvla_memory_tag,
                                                            date_created_str)
                                              \in exhausted]
           /\ minted' = IF out.exc = "" THEN minted \cup {out.value} ELSE minted
           /\ exhausted' = IF out.msg = MsgExhausted
                            THEN exhausted \cup {NumberPlatePrefix(dvla_memory_tag,
                                                                   date_created_str)}
                            ELSE exhausted
    /\ nCalls' = nCalls + 1
    /\ UNCHANGED <<file, instance, has_plates, persisted, loads_ok, loaded, saved>>

\* generate_age_identifier(date_created) called directly
GenerateAgeIdentifier(date_created) ==
    /\ instance = "live"
    /\ result' = [NoResult EXCEPT !.op = "generate_age_identifier",
                      !.date = date_created,
                      !.value = generate_age_identifier(date_created)]
    /\ UNCHANGED <<file, instance, has_plates, existing_generated_plates, minted,
                   persisted, loads_ok, loaded, saved, nCalls, exhausted>>

\* generate_available_random_string(number_plate_prefix) called directly
GenerateAvailableRandomString(number_plate_prefix, start_index) ==
    /\ instance = "live"
    /\ LET found == generate_available_random_string(self, number_plate_prefix,
                                                     start_index)
       IN  result' = [NoResult EXCEPT !.op = "generate_available_random_string",
                          !.prefix = number_plate_prefix,
                          !.start_index = start_index, !.exc = found.exc,
                          !.msg = found.msg, !.value = found.value,
                          !.tested = found.tested,
                          !.again = /\ found.msg = MsgExhausted
                                    /\ number_plate_prefix \in exhausted]
           /\ exhausted' = IF found.msg = MsgExhausted
                            THEN exhausted \cup {number_plate_prefix}
                            ELSE exhausted
    /\ UNCHANGED <<file, instance, has_plates, existing_generated_plates, minted,
                   persisted, loads_ok, loaded, saved, nCalls>>

\* save_to_csv: open(..., mode='w') truncates, then one row per string
SaveToCsv ==
    /\ instance = "live"
    /\ has_plates
    /\ \A plate \in existing_generated_plates : Encodable(plate)
    /\ \E order \in IterationOrders(existing_generated_plates) :
           file' = [exists |-> TRUE, text |-> WriteAll(order)]
    /\ result' = [NoResult EXCEPT !.op = "save_to_csv", !.fs = <<"open_w">>]
    /\ persisted' = persisted \cup (minted \cap existing_generated_plates)
    /\ saved' = [valid |-> TRUE, plates |-> existing_generated_plates]
    /\ existing_generated_plates' = PlatesAfterSave(existing_generated_plates)
    /\ UNCHANGED <<instance, has_plates, minted, loads_ok, loaded, nCalls, exhausted>>

\* save_to_csv with a string in the Tracked Set that cannot be encoded: the file
\* was truncated at open, the rows before that string are written, and the
\* UnicodeEncodeError propagates
SaveToCsvEncodeError ==
    /\ instance = "live"
    /\ has_plates
    /\ \E plate \in existing_generated_plates : ~Encodable(plate)
    /\ \E order \in IterationOrders(existing_generated_plates) :
           file' = [exists |-> TRUE, text |-> WrittenBeforeError(order)]
    /\ result' = [NoResult EXCEPT !.op = "save_to_csv", !.exc = "UnicodeEncodeError",
                                  !.msg = MsgEncode, !.fs = <<"open_w">>]
    /\ saved' = NotSaved
    /\ UNCHANGED <<instance, has_plates, existing_generated_plates, minted,
                   persisted, loads_ok, loaded, nCalls, exhausted>>

\* save_to_csv on an instance without the attribute: the file is opened (and
\* truncated) before the loop raises AttributeError
SaveToCsvNoAttr ==
    /\ instance = "live"
    /\ ~has_plates
    /\ file' = [exists |-> TRUE, text |-> <<>>]
    /\ result' = [NoResult EXCEPT !.op = "save_to_csv", !.exc = "AttributeError",
                                  !.msg = MsgNoAttr, !.fs = <<"open_w">>]
    /\ saved' = NotSaved
    /\ UNCHANGED <<instance, has_plates, existing_generated_plates, minted,
                   persisted, loads_ok, loaded, nCalls, exhausted>>

\* save_to_csv: open raises an I/O error, which propagates; nothing is written
SaveToCsvFails ==
    /\ instance = "live"
    /\ result' = [NoResult EXCEPT !.op = "save_to_csv", !.exc = "OSError",
                                  !.msg = MsgIOError, !.fs = <<"open_w">>]
    /\ UNCHANGED <<file, instance, has_plates, existing_generated_plates, minted,
                   persisted, loads_ok, loaded, saved, nCalls, exhausted>>

-----------------------------------------------------------------------------
(* Inputs *)

Paths ==
    {<<"p", "l", "a", "t", "e", "s", ".", "c", "s", "v">>,
     <<"t", "e", "s", "t", "c", "s", "v">>}

\* paths for constructions alone: no extension, empty, too short, the extension
\* alone, upper case, the extension in front or followed by a space
AllPaths ==
    Paths \cup
    {<<>>,
     <<"c", "s", "v">>,
     <<".", "c", "s", "v">>,
     <<"a", ".", "C", "S", "V">>,
     <<".", "c", "s", "v", ".", "t", "x", "t">>,
     <<"x", ".", "c", "s", "v", " ">>,
     <<"d", "/", ".", "c", "s", "v">>,
     <<"p", "l", "a", "t", "e", "s", ".", "c", "s">>}

\* tags used in sessions: lower case, and one of csv special characters
SessionTags ==
    {<<"y", "p">>,
     <<QUOTE, COMMA>>}

SessionDates ==
    {<<"0", "3", "/", "1", "1", "/", "2", "0", "1", "7">>,
     <<"0", "0", "/", "1", "1", "/", "2", "0", "1", "7">>}

SessionStarts == {0, SpaceSize - 1}

SessionPrefix == <<"Y", "P", "6", "7">>

AllTags ==
    {<<"Y", "R">>,
     <<"y", "r">>,
     <<"E", "R">>,
     <<"A", "B">>,
     <<"a", "b">>,
     <<"y", "R">>,
     <<"Y", "Q">>,
     <<"I", "K">>,
     <<"Z", "T">>,
     <<"A">>,
     <<"A", "B", "C">>,
     <<"q">>,
     <<"i", "q", "z">>,
     <<>>,
     <<"a", "I">>}

AllDates ==
    {<<"0", "3", "/", "1", "1", "/", "2", "0", "1", "7">>,
     <<"0", "8", "/", "0", "1", "/", "2", "0", "0", "9">>,
     <<"0", "6", "/", "0", "7", "/", "2", "0", "2", "1">>,
     <<"0", "0", "/", "1", "1", "/", "2", "0", "1", "7">>,
     <<"0", "3", "-", "1", "1", "-", "2", "0", "1", "7">>,
     <<"3", "1", "/", "0", "2", "/", "2", "0", "1", "7">>,
     <<"0", "3", "/", "1", "1", "/", "2", "0", "1", "7", "5">>,
     <<"3", "/", "4", "/", "2", "0", "1", "0">>,
     <<"0", "3", "/", "1", "1", "/", "0", "0", "0", "0">>,
     <<"2", "9", "/", "0", "2", "/", "2", "0", "2", "4">>,
     <<"0", "1", "/", "0", "4", "/", "0", "0", "0", "5">>,
     <<"2", "5", "/", "0", "9", "/", "9", "9", "9", "9">>}

AgeYears == {1, 5, 9, 10, 49, 50, 99, 100, 1949, 1950, 1999, 2001, 2007, 2010, 2017,
             9949, 9950, 9999}

AgeDates == [year : AgeYears, month : 1..12, day : {1, 28}]

SuffixPrefixes ==
    {<<"Y", "A", "0", "7">>,
     <<"A", "B", "5", "7">>}

Indices == 0..(SpaceSize - 1)

\* every plate of a prefix whose suffix index is in T
PlatesAt(number_plate_prefix, T) ==
    {Plate(number_plate_prefix, all_possible_random_strings[i + 1]) : i \in T}

\* the circular run of n indices from a on
Run(a, n) == {(a + j) % SpaceSize : j \in 0..(n - 1)}

\* index sets: none, all, and from every index on: one taken, two taken, all but one
IndexSets ==
    {{}, Indices} \cup {Run(a, n) : a \in Indices, n \in {1, 2, SpaceSize - 1}}

\* Tracked Sets for the direct calls of generate_available_random_string: the
\* index sets for one prefix, alone or beside another prefix that is used up
OtherPlates ==
    PlatesAt(<<"A", "B", "5", "7">>, Indices) \cup {<<"Y", "A", "0", "7", "A", "A", "A">>}

SuffixFamily ==
    {PlatesAt(<<"Y", "A", "0", "7">>, T) : T \in IndexSets}
    \cup {PlatesAt(<<"Y", "A", "0", "7">>, T) \cup OtherPlates : T \in {{}, {0}, Indices}}

\* Tracked Sets for single calls of generate_numberplate
PlateFamily ==
    {{},
     {<<"E", "R", "5", "9", " ", "A", "A", "A">>, <<"E", "R", "5", "9", " ", "A", "A", "B">>},
     PlatesAt(<<"A", "B", "6", "7">>, Indices),
     PlatesAt(<<"A", "B", "6", "7">>, Indices \ {1}) \cup PlatesAt(<<"Y", "R", "6", "7">>, {0}),
     PlatesAt(<<"Y", "R", "6", "7">>, Indices) \cup {<<"A", "B", "1", "0", " ", "A", "A", "A">>}}

\* the store before the first construction
InitialFiles ==
    {[exists |-> FALSE, text |-> <<>>],
     [exists |-> TRUE, text |-> <<QUOTE, "a", COMMA, QUOTE, QUOTE, CR, LF, "b", QUOTE, CR, LF, CR, LF, "Y", "P", "6", "7", " ", "A", "A", "A", COMMA, "e", "x", "t", "r", "a", LF, QUOTE, QUOTE, CR, LF, "Y", "P", "6", "7", " ", "A", "A", "B">>],
     [exists |-> TRUE, text |-> WriteAll(SetToSeq(PlatesAt(SessionPrefix, Indices \ {1})))]}

\* inputs of the sessions that use every operation
MixedTags ==
    {<<"y", "p">>,
     <<"A", "B">>}

MixedPrefixes ==
    {SessionPrefix,
     <<"A", "B", "6", "7">>}

MixedDate == [year |-> 2017, month |-> 11, day |-> 3]

\* the stores of those sessions: none, and every suffix or all but one of a
\* prefix taken
MixedFiles ==
    {[exists |-> FALSE, text |-> <<>>],
     [exists |-> TRUE, text |-> WriteAll(SetToSeq(PlatesAt(SessionPrefix, Indices \ {1})))],
     [exists |-> TRUE, text |-> WriteAll(SetToSeq(PlatesAt(SessionPrefix, Indices)))]}

-----------------------------------------------------------------------------
(* Specifications *)

Start(f, inst, plates) ==
    /\ file = f
    /\ instance = inst
    /\ has_plates = (inst = "live")
    /\ existing_generated_plates = plates
    /\ result = NoResult
    /\ minted = {}
    /\ persisted = {}
    /\ loads_ok = TRUE
    /\ loaded = {}
    /\ saved = NotSaved
    /\ nCalls = 0
    /\ exhausted = {}

\* sessions on one store: construct, mint, save, construct again
Init == \E f \in InitialFiles : Start(f, "none", {})

Construct ==
    \E save_file_path \in Paths :
        \/ ConstructBadPath(save_file_path)
        \/ ConstructLoad(save_file_path)
        \/ ConstructLoadFails(save_file_path)

Mint ==
    \E tag \in SessionTags, d \in SessionDates, s \in SessionStarts :
        GenerateNumberPlate(tag, d, s, MaxCalls)

Save == SaveToCsv \/ SaveToCsvNoAttr \/ SaveToCsvFails

Next == Construct \/ Mint \/ Save

Spec == Init /\ [][Next]_vars

\* single calls of generate_numberplate over the input classes
InitPlate == \E plates \in PlateFamily : Start([exists |-> FALSE, text |-> <<>>], "live", plates)

NextPlate ==
    \E tag \in AllTags, d \in AllDates, s \in Indices :
        GenerateNumberPlate(tag, d, s, 1)

SpecPlate == InitPlate /\ [][NextPlate]_vars

\* direct calls of generate_available_random_string
InitSuffix == \E plates \in SuffixFamily : Start([exists |-> FALSE, text |-> <<>>], "live", plates)

NextSuffix ==
    \E number_plate_prefix \in SuffixPrefixes, s \in Indices :
        GenerateAvailableRandomString(number_plate_prefix, s)

SpecSuffix == InitSuffix /\ [][NextSuffix]_vars

\* sessions on one store with inputs that pass the checks, a tag with a lone
\* surrogate among them: what the store holds over time
StoreTags == SessionTags \cup {<<SURROGATE, "a">>}

MintValid ==
    \E tag \in StoreTags :
        GenerateNumberPlate(tag, <<"0", "3", "/", "1", "1", "/", "2", "0", "1", "7">>, 0,
                            MaxCalls)

NextStore == Construct \/ MintValid \/ Save \/ SaveToCsvEncodeError

SpecStore == Init /\ [][NextStore]_vars

\* sessions in which every operation is called, the helpers directly too
InitMixed == \E f \in MixedFiles : Start(f, "none", {})

MintMixed ==
    \E tag \in MixedTags, d \in SessionDates :
        GenerateNumberPlate(tag, d, SpaceSize - 1, MaxCalls)

Helpers ==
    \/ GenerateAgeIdentifier(MixedDate)
    \/ \E prefix \in MixedPrefixes : GenerateAvailableRandomString(prefix, 0)

NextMixed == Construct \/ MintMixed \/ Helpers \/ Save

SpecMixed == InitMixed /\ [][NextMixed]_vars

\* constructions alone, with no instance yet or with an earlier one, on every store
InitConstruct ==
    \E f \in InitialFiles :
        \/ Start(f, "none", {})
        \/ \E plates \in {{}, {SessionPrefix \o <<" ", "A", "A", "A">>}} : Start(f, "live", plates)

NextConstruct ==
    \E save_file_path \in AllPaths :
        \/ ConstructBadPath(save_file_path)
        \/ ConstructLoad(save_file_path)
        \/ ConstructLoadFails(save_file_path)

SpecConstruct == InitConstruct /\ [][NextConstruct]_vars

\* direct calls of generate_age_identifier
InitAge == Start([exists |-> FALSE, text |-> <<>>], "live", {})

NextAge == \E date_created \in AgeDates : GenerateAgeIdentifier(date_created)

SpecAge == InitAge /\ [][NextAge]_vars

-----------------------------------------------------------------------------
(* Claims *)

Returned(op) == result.op = op /\ result.exc = ""

\* is the plate of this prefix with the suffix of index i absent from the Tracked Set
FreeAt(number_plate_prefix, i) ==
    Plate(number_plate_prefix, all_possible_random_strings[i + 1])
        \notin existing_generated_plates

\* C1: every identifier generate_numberplate returns was not in the Tracked Set
\* just before the call, and so is not one that was loaded at construction
C1_ReturnedPlateIsNew ==
    [][(result'.op = "generate_numberplate" /\ result'.exc = "")
          => /\ result'.value \notin existing_generated_plates
             /\ result'.value \notin loaded]_vars

\* a plate is returned from a loaded set after the start index was found taken
C1_Witness ==
    /\ Returned("generate_numberplate")
    /\ loaded # {}
    /\ Len(result.tested) >= 2

\* C2: while every load has succeeded, generate_numberplate never returns an
\* identifier that an earlier call returned and a successful save has written
C2_NeverMintedTwiceAcrossSessions ==
    (Returned("generate_numberplate") /\ loads_ok) => result.value \notin persisted

\* a later session, which loaded a plate minted and saved before, mints after
\* skipping a taken suffix
C2_Witness ==
    /\ Returned("generate_numberplate")
    /\ loads_ok
    /\ (loaded \cap persisted) # {}
    /\ Len(result.tested) >= 2

\* C3: when some suffix is free for the prefix, generate_available_random_string
\* returns the entry at (s + k) mod size for the smallest k whose entry is free
C3_FirstFreeInCircularOrder ==
    (result.op = "generate_available_random_string"
     /\ \E i \in Indices : FreeAt(result.prefix, i))
    => \E k \in Indices :
          /\ FreeAt(result.prefix, (result.start_index + k) % SpaceSize)
          /\ \A j \in 0..(k - 1) :
                 ~FreeAt(result.prefix, (result.start_index + j) % SpaceSize)
          /\ result.exc = ""
          /\ result.value =
                 all_possible_random_strings[((result.start_index + k) % SpaceSize) + 1]

\* the scan started at the last index, found it taken and went on at index 0
C3_Witness ==
    /\ Returned("generate_available_random_string")
    /\ result.start_index = SpaceSize - 1
    /\ Len(result.tested) >= 2
    /\ result.tested[2] = 0

\* C4: generate_available_random_string raises "No more unique strings available"
\* exactly when every suffix of the prefix is taken, and returns otherwise
C4_ExhaustedIffAllTaken ==
    result.op = "generate_available_random_string"
    => /\ (result.exc = "ValueError" /\ result.msg = MsgExhausted)
              <=> (\A i \in Indices : ~FreeAt(result.prefix, i))
       /\ (\E i \in Indices : FreeAt(result.prefix, i)) => result.exc = ""

\* the error is raised for a used-up prefix while another prefix has free suffixes
C4_Witness ==
    /\ result.op = "generate_available_random_string"
    /\ result.msg = MsgExhausted
    /\ \E other \in SuffixPrefixes, i \in Indices : FreeAt(other, i)

C6_ValidationOrder ==
    result.op = "generate_numberplate"
    => LET parsed == strptime(result.date_str)
           tag    == upper(result.tag)
       IN  /\ ~parsed.ok
                => result.exc = "ValueError" /\ result.msg = parsed.msg
                   /\ result.msg \in StrptimeErrors
           /\ (parsed.ok /\ HasExcluded(tag))
                => result.exc = "ValueError" /\ result.msg = MsgExcluded
           /\ (parsed.ok /\ ~HasExcluded(tag) /\ Len(tag) # 2)
                => result.exc = "ValueError" /\ result.msg = MsgLength

\* a call with an unparsable date and an excluded letter in a tag of the wrong length
C6_Witness ==
    /\ result.op = "generate_numberplate"
    /\ result.msg = MsgTimeData
    /\ HasExcluded(upper(result.tag))
    /\ Len(result.tag) # 2

\* C7 as stated: a tag with an excluded letter always gives the excluded-letter
\* message, whether or not the date string parses
C7_ExcludedLetterWhateverTheDate ==
    (result.op = "generate_numberplate" /\ HasExcluded(upper(result.tag)))
    => result.msg = MsgExcluded

\* C7 amended: a tag with an excluded letter gives the excluded-letter message
\* when the date string parses, whatever the tag's length, and the date error
\* when it does not
C7_ExcludedLetterWhenDateParses ==
    (result.op = "generate_numberplate" /\ HasExcluded(upper(result.tag)))
    => /\ result.exc = "ValueError"
       /\ result.msg = IF strptime(result.date_str).ok THEN MsgExcluded
                       ELSE strptime(result.date_str).msg

\* a lower-case tag of three excluded letters with a date that parses
C7_Witness ==
    /\ result.op = "generate_numberplate"
    /\ result.tag = <<"i", "q", "z">>
    /\ result.msg = MsgExcluded

\* C8: a failing generate_numberplate leaves the Tracked Set as it was
C8_FailureLeavesTrackedSet ==
    [][(result'.op = "generate_numberplate" /\ result'.exc # "")
          => existing_generated_plates' = existing_generated_plates]_vars

\* the call failed with the exhaustion error on a non-empty Tracked Set
C8_Witness ==
    /\ result.op = "generate_numberplate"
    /\ result.msg = MsgExhausted
    /\ existing_generated_plates # {}

\* C9: after a successful save the file loads to the Tracked Set that was saved,
\* and an instance constructed on that file starts with exactly that set
C9_SaveLoadRoundTrip ==
    /\ Returned("save_to_csv")
           => file.exists /\ load_from_csv(file.text) = existing_generated_plates
    /\ (Returned("__init__") /\ has_plates /\ saved.valid)
           => existing_generated_plates = saved.plates

\* an instance constructed on a saved file of several plates, one of them with
\* a quote character
C9_Witness ==
    /\ Returned("__init__")
    /\ has_plates
    /\ saved.valid
    /\ Cardinality(saved.plates) >= 2
    /\ \E plate \in saved.plates : QUOTE \in Range(plate)

\* C10 as stated: after a load that failed with an I/O error the instance holds
\* an empty Tracked Set, and a following generate_numberplate or save works on it
C10_FailedLoadLeavesEmptySet ==
    /\ (result.op = "__init__" /\ result.msg = MsgIOError)
           => has_plates /\ existing_generated_plates = {}
    /\ (instance = "live" /\ result.op \in {"generate_numberplate", "save_to_csv"})
           => result.exc # "AttributeError"

\* C11: a construction with a path whose last four characters are not ".csv"
\* raises "File must be a .csv file" with no file system call made, and leaves
\* the store and whatever instance there was as they were; a construction with
\* a path that ends in ".csv" never raises that error
EndsInCsv(path) ==
    /\ Len(path) >= 4
    /\ path[Len(path) - 3] = "."
    /\ path[Len(path) - 2] = "c"
    /\ path[Len(path) - 1] = "s"
    /\ path[Len(path)] = "v"

C11_BadExtensionFailsFirst ==
    [][result'.op = "__init__"
          => IF EndsInCsv(result'.path)
             THEN result'.msg # MsgExtension /\ result'.exc = "" /\ instance' = "live"
             ELSE /\ result'.exc = "ValueError"
                  /\ result'.msg = MsgExtension
                  /\ result'.fs = <<>>
                  /\ UNCHANGED <<file, instance, has_plates, existing_generated_plates>>]_vars

\* the path has ".csv" in it but not at its end, the store exists, and there is
\* no instance
C11_Witness ==
    /\ result.op = "__init__"
    /\ result.path = <<".", "c", "s", "v", ".", "t", "x", "t">>
    /\ result.msg = MsgExtension
    /\ file.exists
    /\ instance = "none"

\* C12: for valid inputs generate_numberplate returns the upper-cased tag, the
\* age code of the parsed date, a space, and the suffix that
\* generate_available_random_string yields for that prefix on the Tracked Set as
\* it was; a tag and its upper-case form give the same outcome. With the
\* alphabet of 23 letters: "YR", "03/11/2017", start index 5, empty set gives
\* "YR67 AAF"
Capital(c) ==
    IF \E k \in 1..26 : ascii_lowercase[k] = c
    THEN ascii_uppercase[CHOOSE k \in 1..26 : ascii_lowercase[k] = c]
    ELSE c

Capitals(tag) == [i \in 1..Len(tag) |-> Capital(tag[i])]

FullSpace == product(SelectSeq(ascii_uppercase, LAMBDA c : c \notin ExcludedChars), RepeatLen)

C12_Example ==
    LET date == strptime(<<"0", "3", "/", "1", "1", "/", "2", "0", "1", "7">>).date
    IN  /\ Len(FullSpace) = 12167
        /\ upper(<<"Y", "R">>) \o generate_age_identifier(date) \o <<" ">> \o FullSpace[5 + 1]
               = <<"Y", "R", "6", "7", " ", "A", "A", "F">>
        /\ \A i \in Indices : all_possible_random_strings[i + 1] \in Range(FullSpace)

C12_PlateIsTagAgeSpaceSuffix ==
    [][(result'.op = "generate_numberplate" /\ result'.exc = "")
          => LET parsed == strptime(result'.date_str)
                 prefix == Capitals(result'.tag) \o generate_age_identifier(parsed.date)
                 found  == generate_available_random_string(self, prefix,
                                                            result'.start_index)
                 other  == generate_numberplate(self, Capitals(result'.tag),
                                                result'.date_str, result'.start_index)
             IN  /\ parsed.ok
                 /\ found.exc = ""
                 /\ result'.value = prefix \o <<" ">> \o found.value
                 /\ other.exc = "" /\ other.value = result'.value
                 /\ other.plates = existing_generated_plates'
                 /\ C12_Example]_vars

\* a lower-case tag gets the suffix after the one that the upper-case prefix
\* already holds
C12_Witness ==
    /\ Returned("generate_numberplate")
    /\ result.tag = <<"y", "r">>
    /\ result.start_index = 0
    /\ result.value = <<"Y", "R", "6", "7", " ", "A", "A", "B">>
    /\ <<"Y", "R", "6", "7", " ", "A", "A", "A">> \in existing_generated_plates

\* C17 as stated: for every date string the parser accepts, the identifier
\* generate_numberplate returns has a prefix of four characters, the last two of
\* them decimal digits (the age code), and eight characters in all
C17_AgeCodeTwoDigits ==
    Returned("generate_numberplate")
    => /\ Len(result.value) = 8
       /\ result.value[5] = " "
       /\ IsDigit(result.value[3])
       /\ IsDigit(result.value[4])

\* C16: a call of generate_available_random_string tests at most as many
\* candidates as the space has (12167 for the 23 letters), the indices tested are
\* start, start + 1, ... modulo the size, no index twice, and the call ends with
\* a suffix of the space or with the exhaustion error
C16_ScanBoundedAndDistinct ==
    result.op = "generate_available_random_string"
    => /\ Len(FullSpace) = 12167
       /\ Len(result.tested) >= 1
       /\ Len(result.tested) <= SpaceSize
       /\ \A k \in 1..Len(result.tested) :
              result.tested[k] = (result.start_index + (k - 1)) % SpaceSize
       /\ \A j, k \in 1..Len(result.tested) :
              j # k => result.tested[j] # result.tested[k]
       /\ \/ result.exc = "" /\ result.value \in Range(all_possible_random_strings)
          \/ /\ result.exc = "ValueError" /\ result.msg = MsgExhausted
             /\ Len(result.tested) = SpaceSize

\* every index was tested once, from the middle of the space round to the
\* index before it, and the last candidate was free
C16_Witness ==
    /\ Returned("generate_available_random_string")
    /\ Len(result.tested) = SpaceSize
    /\ result.start_index = 3
    /\ result.tested[SpaceSize] = 2

\* C13: within a session the Tracked Set never shrinks: a generate_numberplate
\* that returns changes it to the set before with the returned plate added, one
\* element more, and save_to_csv and generate_available_random_string leave it
\* as it was
C13_TrackedSetOnlyGrows ==
    [][/\ result'.op # "__init__"
             => existing_generated_plates \subseteq existing_generated_plates'
       /\ (result'.op = "generate_numberplate" /\ result'.exc = "")
             => /\ existing_generated_plates'
                      = existing_generated_plates \cup {result'.value}
                /\ Cardinality(existing_generated_plates')
                      = Cardinality(existing_generated_plates) + 1
       /\ result'.op \in {"save_to_csv", "generate_available_random_string",
                          "generate_age_identifier"}
             => existing_generated_plates' = existing_generated_plates]_vars

\* the second plate of a session was added to a loaded set
C13_Witness ==
    /\ Returned("generate_numberplate")
    /\ loaded # {}
    /\ loaded \subseteq existing_generated_plates
    /\ Cardinality(existing_generated_plates) = Cardinality(loaded) + 2

CallPrefix(r) ==
    IF r.op = "generate_available_random_string" THEN r.prefix
    ELSE Capitals(r.tag) \o generate_age_identifier(strptime(r.date_str).date)

ReachedSearch(r) ==
    \/ r.op = "generate_available_random_string"
    \/ /\ r.op = "generate_numberplate"
       /\ strptime(r.date_str).ok
       /\ ~HasExcluded(Capitals(r.tag))
       /\ Len(r.tag) = 2

\* C15: once an instance has raised the exhaustion error for a prefix, every
\* later generate_numberplate or generate_available_random_string for that
\* prefix on that instance raises it too, whatever was called in between
C15_ExhaustionIsPermanent ==
    [][(ReachedSearch(result') /\ CallPrefix(result') \in exhausted)
          => /\ result'.exc = "ValueError"
             /\ result'.msg = MsgExhausted
             /\ result'.again]_vars

\* the error is raised again for a prefix, by generate_numberplate, on an
\* instance that minted a plate of another prefix and saved
C15_Witness ==
    /\ result.op = "generate_numberplate"
    /\ result.again
    /\ (minted \cap existing_generated_plates) # {}
    /\ saved.valid
    /\ saved.plates = existing_generated_plates

\* C18 as stated: while every load has succeeded the stored set never loses an
\* identifier: whatever save_to_csv leaves in the file holds all that the
\* instance loaded at its construction and all that the file held before, so no
\* step makes the stored set smaller
C18_StoredSetOnlyGrows ==
    [][loads_ok'
          => /\ file.exists => file'.exists
             /\ result'.op = "save_to_csv"
                  => LET written == Stored(file')
                     IN  /\ loaded \subseteq written
                         /\ Stored(file) \subseteq written]_vars

====
